---- MODULE Spec2Model ----
(***************************************************************************)
(* A model of the pipeline tracker of discord-tracker: the orchestrator    *)
(* (src/pipeline_tracker.rs), the snapshot file (src/storage.rs), the step *)
(* model (src/models.rs), the validation (src/validation.rs), the embeds   *)
(* (src/message_builder.rs) and the hosted entry point (src/main.rs).      *)
(* Spec is the tracker called operation by operation; FnSpec applies the   *)
(* functions of the program on their own to inputs drawn at the start.     *)
(*                                                                         *)
(* Text is a sequence of one-character strings, so that to_lowercase and   *)
(* parse are computed on it.  Option<T> is a sequence of length 0 or 1.    *)
(* The remote side and the file system answer nondeterministically.        *)
(***************************************************************************)
EXTENDS Integers, Sequences, FiniteSets, TLC

\* ------------------------------------------------------------- bounds
\* Step numbers and totals offered to update_step run over 0..MaxStep.
MaxStep == 2
\* At most MaxOps operations (new, init, step, complete) are called in one run.
MaxOps == 3
\* The step lists given to the embed builders on their own have at most
\* MaxLen steps, and the totals given with them run over 0..MaxLen.
MaxLen == 3
\* validate_step_number on its own is given steps and totals over 0..MaxArg.
MaxArg == 3
\* The entry point is started with 0..MaxArgc arguments, the program name
\* counted.
MaxArgc == 16
\* The steps whose duration is formatted took 0..MaxMillis milliseconds.
MaxMillis == 1500

\* ------------------------------------------------------------- Option<T>
None == <<>>

Some(x) == <<x>>

IsSome(o) == o # <<>>

Unwrap(o) == o[1]

\* ------------------------------------------------------------- text
Digits == {"0", "1", "2", "3", "4", "5", "6", "7", "8", "9"}

DigitValue(c) == CASE c = "0" -> 0 [] c = "1" -> 1 [] c = "2" -> 2 [] c = "3" -> 3 [] c = "4" -> 4 [] c = "5" -> 5 [] c = "6" -> 6 [] c = "7" -> 7 [] c = "8" -> 8 [] OTHER -> 9

\* char::to_lowercase on the letters the model uses; every other character
\* is left as it is.
LowerChar(c) == CASE c = "S" -> "s" [] c = "U" -> "u" [] c = "C" -> "c" [] c = "E" -> "e" [] c = "P" -> "p" [] c = "N" -> "n" [] c = "D" -> "d" [] c = "I" -> "i" [] c = "G" -> "g" [] c = "F" -> "f" [] c = "A" -> "a" [] c = "L" -> "l" [] OTHER -> c

to_lowercase(s) == [i \in 1..Len(s) |-> LowerChar(s[i])]

RECURSIVE DecimalValue(_)
DecimalValue(s) == IF s = <<>> THEN 0 ELSE 10 * DecimalValue(SubSeq(s, 1, Len(s) - 1)) + DigitValue(s[Len(s)])

\* str::parse::<u32>: an optional "+", then one or more decimal digits, the
\* value within u32; anything else is an error.  Every text of at most nine
\* digits is within u32, and the model offers no longer one.
ParseU32(s) ==
    LET body == IF s # <<>> /\ s[1] = "+" THEN Tail(s) ELSE s
    IN IF body # <<>> /\ (\A i \in 1..Len(body) : body[i] \in Digits) /\ Len(body) <= 9
       THEN Some(DecimalValue(body))
       ELSE None

\* Option::unwrap_or
unwrap_or(o, d) == IF IsSome(o) THEN Unwrap(o) ELSE d

\* ------------------------------------------------------------- validation
ValidateBotToken(token) == IF token = <<>> THEN "InvalidBotToken" ELSE "Ok"

\* char::is_numeric: the decimal digits and the other Unicode numeric
\* characters (of which the model has the superscript two).
IsNumeric(c) == c \in Digits \cup {"²"}

HasExponentLetter(s) == \E i \in 1..Len(s) : s[i] \in {"E", "e"}

StripSign(s) == IF s # <<>> /\ s[1] \in {"+", "-"} THEN Tail(s) ELSE s

\* str::parse::<f64> on a text that holds an E or e: [sign] mantissa
\* (digits with at most one point, at least one digit) e|E [sign] digits+.
ParsesAsF64(s) ==
    LET u == StripSign(s)
        epos == CHOOSE i \in 1..Len(u) : u[i] \in {"E", "e"} /\ \A j \in 1..(i - 1) : u[j] \notin {"E", "e"}
        mant == SubSeq(u, 1, epos - 1)
        expo == StripSign(SubSeq(u, epos + 1, Len(u)))
    IN /\ HasExponentLetter(u)
       /\ \A i \in 1..Len(mant) : mant[i] \in Digits \cup {"."}
       /\ Cardinality({i \in 1..Len(mant) : mant[i] = "."}) <= 1
       /\ \E i \in 1..Len(mant) : mant[i] \in Digits
       /\ expo # <<>>
       /\ \A i \in 1..Len(expo) : expo[i] \in Digits

ValidateChannelId(channel_id) ==
    IF channel_id = <<>> THEN "InvalidChannelId"
    ELSE IF HasExponentLetter(channel_id)
         THEN (IF ParsesAsF64(channel_id) THEN "Ok" ELSE "InvalidChannelId")
         ELSE IF \E i \in 1..Len(channel_id) : ~IsNumeric(channel_id[i]) THEN "InvalidChannelId"
              ELSE "Ok"

\* A validation that forgets to compare the step number with the total.
ValidateStepNumberNoUpper(step, total_steps) ==
    IF step = 0 THEN "InvalidStepNumber"
    ELSE IF total_steps = 0 THEN "InvalidTotalSteps"
         ELSE "Ok"

\* A validation that looks at the total before the step number.
ValidateStepNumberTotalFirst(step, total_steps) ==
    IF total_steps = 0 THEN "InvalidTotalSteps"
    ELSE IF step = 0 THEN "InvalidStepNumber"
         ELSE IF step > total_steps THEN "StepNumberExceedsTotal"
              ELSE "Ok"

validate_step_number(step, total_steps) ==
    IF step = 0 THEN "InvalidStepNumber"
    ELSE IF total_steps = 0 THEN "InvalidTotalSteps"
         ELSE IF step > total_steps THEN "StepNumberExceedsTotal"
              ELSE "Ok"

\* The values the error of validate_step_number carries.
StepNumberErrorArgs(step, total_steps) ==
    IF step = 0 THEN <<step>>
    ELSE IF total_steps = 0 THEN <<total_steps>>
         ELSE IF step > total_steps THEN <<step, total_steps>>
              ELSE <<>>

\* DiscordApi::new: the token is validated before the channel id.
DiscordApiNew(bot_token, channel_id) ==
    IF ValidateBotToken(bot_token) # "Ok" THEN ValidateBotToken(bot_token)
    ELSE ValidateChannelId(channel_id)

\* ------------------------------------------------------------- step model
Success == "Success"

Pending == "Pending"

Failed == "Failed"

\* StepStatus::from_str: Some(status), or None for the InvalidStatus error.
StatusFromStr(s) ==
    LET l == to_lowercase(s)
    IN IF l = <<"s", "u", "c", "c", "e", "s", "s">> THEN Some(Success)
       ELSE IF l = <<"p", "e", "n", "d", "i", "n", "g">> THEN Some(Pending)
            ELSE IF l = <<"f", "a", "i", "l", "e", "d">> THEN Some(Failed)
                 ELSE None

StepInfoNew(number, name, status, additional_info, t) ==
    [number |-> number, name |-> name, status |-> status, additional_info |-> additional_info, started_at |-> t, completed_at |-> None]

mark_completed(step, t) == [step EXCEPT !.completed_at = Some(t)]

\* Iterator::position: the first index whose step has this number, 0 for None.
Position(list, number) ==
    IF \E i \in 1..Len(list) : list[i].number = number
    THEN CHOOSE i \in 1..Len(list) : list[i].number = number /\ \A j \in 1..(i - 1) : list[j].number # number
    ELSE 0

\* ------------------------------------------------------------- embeds
Red == 16711680

Green == 65280

Yellow == 16776960

\* The status emoji, by their names: U+274C, U+2705 and U+1F504.
Cross == "cross mark"

Check == "check mark"

Arrows == "counterclockwise arrows"

\* steps.iter().filter(|s| s.status == status).count()
CountStatus(list, status) == Cardinality({i \in 1..Len(list) : list[i].status = status})

\* A colour rule that looks at the completed count before the failures.
GetStatusColorGreenFirst(failed_steps, completed_steps, total_steps) ==
    IF completed_steps = total_steps THEN Green
    ELSE IF failed_steps > 0 THEN Red
         ELSE Yellow

get_status_color(failed_steps, completed_steps, total_steps) ==
    IF failed_steps > 0 THEN Red
    ELSE IF completed_steps = total_steps THEN Green
         ELSE Yellow

\* (completed_steps as f64 / total_steps as f64 * 100.0) as u32: the cast
\* truncates, and on the counts and totals of the model the quotient times
\* 100.0 is never within a rounding error of a whole number it does not reach.
ProgressPercentage(completed_steps, total_steps) ==
    IF total_steps > 0 THEN (completed_steps * 100) \div total_steps ELSE 0

build_init_embed(pr) ==
    [kind |-> "init", pr_number |-> pr.number, emoji |-> Arrows, status_text |-> "Initializing...", color |-> Green,
     completed |-> 0, total |-> 0, percentage |-> 0, current_step |-> 0]

build_step_update_embed(pr, list, current_step, total_steps) ==
    LET completed_steps == CountStatus(list, Success)
        failed_steps == CountStatus(list, Failed)
    IN [kind |-> "step", pr_number |-> pr.number,
        emoji |-> IF failed_steps > 0 THEN Cross ELSE IF completed_steps = total_steps THEN Check ELSE Arrows,
        status_text |-> IF failed_steps > 0 THEN "Failed" ELSE IF completed_steps = total_steps THEN "Completed" ELSE "In Progress",
        color |-> get_status_color(failed_steps, completed_steps, total_steps),
        completed |-> completed_steps, total |-> total_steps,
        percentage |-> ProgressPercentage(completed_steps, total_steps), current_step |-> current_step]

\* build_completion_embed; the Duration field is now - start_time.
build_completion_embed(pr, list, total_steps, start_time, t) ==
    LET completed_steps == CountStatus(list, Success)
        failed_steps == CountStatus(list, Failed)
    IN [kind |-> "completion", pr_number |-> pr.number,
        emoji |-> IF failed_steps > 0 THEN Cross ELSE Check,
        status_text |-> IF failed_steps > 0 THEN "Failed" ELSE "Completed",
        color |-> get_status_color(failed_steps, completed_steps, total_steps),
        completed |-> completed_steps, total |-> total_steps,
        percentage |-> 0, current_step |-> 0, duration |-> t - start_time]

\* ------------------------------------------------------------- inputs
PrInputs ==
    { [number |-> <<"4", "2">>, title |-> "Add feature", author |-> "alice", repository |-> "org/repo", branch |-> "feature-x"],
      [number |-> <<"x">>, title |-> "Fix", author |-> "bob", repository |-> "org/repo", branch |-> "main"] }

StatusTexts ==
    { <<"s", "u", "c", "c", "e", "s", "s">>, <<"P", "e", "n", "d", "i", "n", "g">>,
      <<"F", "A", "I", "L", "E", "D">>, <<"d", "o", "n", "e">> }

\* A step's name and its additional_info, as one call gives them.
StepLabels ==
    { [name |-> "Build", info |-> <<>>],
      [name |-> "Test", info |-> << <<"error", "timeout">> >>] }

Tokens == { <<>>, <<"t">> }

ChannelIds ==
    { <<>>, <<"1", "2", "3">>, <<"1", "2", "a">>, <<"1", ".", "3", "E", "+", "1", "8">>,
      <<"1", ".", "2", "E", "+", "x">>, <<"²">> }

\* The outcome of one remote request: 2xx, or a failure.  A transport failure
\* (HttpError) and a non-2xx answer (DiscordApiError) are returned by the
\* same path, so one failure stands for both.
RemoteOutcomes == {"Ok", "DiscordApiError"}

\* The outcome of one file-system call (write, remove): TRUE when it succeeds.
\* The runs checked are those in which the file system does not fail; the
\* operations below say what a failure (FALSE) does.
FsOutcomes == {TRUE}

\* ------------------------------------------------------------- state
VARIABLES
    live,                 \* a tracker exists (PipelineTracker::new returned Ok)
    message_id,           \* PipelineTracker.message_id : Option<String>
    steps,                \* PipelineTracker.steps : Vec<StepInfo>
    pr_info,              \* PipelineTracker.pr_info : Option<PrInfo>
    pipeline_started_at,  \* PipelineTracker.pipeline_started_at
    file,                 \* the snapshot file: None, or Some(PipelineState)
    now,                  \* Utc::now(): the clock advances from one call to the next
    next_id,              \* the next message id the remote side assigns
    reqs,                 \* the remote requests the last operation issued
    last,                 \* the last operation, its arguments and its result
    ops,                  \* the operations called so far
    created,              \* history: the id of this tracker's last successful create
    stamped,              \* history: the step numbers this tracker has stamped
    completed,            \* history: complete_pipeline has succeeded on this tracker's pipeline
    embed,                \* the embed the last operation built: None, or Some(embed)
    inp,                  \* the input of a function applied on its own
    out                   \* its output: None until it is applied

vars == <<live, message_id, steps, pr_info, pipeline_started_at, file, now, next_id, reqs, last, ops, created, stamped, completed, embed, inp, out>>

\* No function is applied on its own in a run of the tracker.
NoInput == [fn |-> "none"]

\* The record of a call: the operation, its result and the arguments of
\* update_step (empty for the other operations).
Call(op, result, args) == [op |-> op, result |-> result, args |-> args]

StepArgs(step_number, total_steps, step_name, status, additional_info) ==
    [step_number |-> step_number, total_steps |-> total_steps, step_name |-> step_name, status |-> status, additional_info |-> additional_info]

NoArgs == StepArgs(0, 0, "", <<>>, <<>>)

\* The text of the id the remote side assigns to its n-th message.
IdText(n) == <<n>>

Post == [method |-> "POST", message_id |-> <<>>]

Patch(id) == [method |-> "PATCH", message_id |-> id]

\* ------------------------------------------------------------- storage
PipelineState(mid, pr, list, started) ==
    [message_id |-> mid, pr_number |-> unwrap_or(ParseU32(pr.number), 0), pr_title |-> pr.title, author |-> pr.author,
     repository |-> pr.repository, branch |-> pr.branch, steps |-> list, pipeline_started_at |-> started]

\* MessageStorage::save_pipeline_state: the file after the call; a failed
\* write leaves the file as it was.
save_pipeline_state(f, state, fsOk) == IF fsOk THEN Some(state) ELSE f

\* MessageStorage::clear_pipeline_state: the file after the call.
clear_pipeline_state(f, fsOk) == IF IsSome(f) /\ fsOk THEN None ELSE f

\* The result of clear_pipeline_state: only an existing file can fail to go.
ClearResult(f, fsOk) == IF IsSome(f) /\ ~fsOk THEN "FileSystemError" ELSE "Ok"

\* ------------------------------------------------------------- JSON
\* serde_json on PipelineState.  A document is the tree of the object with
\* every scalar in its JSON text: a string quoted and escaped, a number in
\* decimal digits, a timestamp as a quoted text, an absent option as null, a
\* status as the quoted name of its variant.  The content of the file is a
\* sequence of items: [c |-> a character], or a document with its opening
\* brace, [c |-> "{", json |-> the tree].
DigitChar(d) == CASE d = 0 -> "0" [] d = 1 -> "1" [] d = 2 -> "2" [] d = 3 -> "3" [] d = 4 -> "4" [] d = 5 -> "5" [] d = 6 -> "6" [] d = 7 -> "7" [] d = 8 -> "8" [] OTHER -> "9"

RECURSIVE FormatU32(_)
FormatU32(n) == IF n < 10 THEN <<DigitChar(n)>> ELSE Append(FormatU32(n \div 10), DigitChar(n % 10))

\* A JSON number read as u32: decimal digits with no sign and no leading zero.
ParseJsonU32(t) ==
    IF t # <<>> /\ (\A i \in 1..Len(t) : t[i] \in Digits) /\ (Len(t) > 1 => t[1] # "0") /\ Len(t) <= 9
    THEN Some(DecimalValue(t))
    ELSE None

RECURSIVE Escape(_)
Escape(s) ==
    IF s = <<>> THEN <<>>
    ELSE (CASE s[1] = "\"" -> <<"\\", "\"">>
            [] s[1] = "\\" -> <<"\\", "\\">>
            [] s[1] = "\n" -> <<"\\", "n">>
            [] OTHER -> <<s[1]>>) \o Escape(Tail(s))

\* The text between the quotes read back: Some(text), or None when a quote
\* or a line end stands bare or a backslash escapes nothing.
RECURSIVE Unescape(_)
Unescape(t) ==
    IF t = <<>> THEN Some(<<>>)
    ELSE IF t[1] \in {"\"", "\n"} THEN None
    ELSE IF t[1] = "\\"
         THEN IF Len(t) < 2 \/ t[2] \notin {"\"", "\\", "n"} \/ Unescape(SubSeq(t, 3, Len(t))) = None THEN None
              ELSE Some(<<(IF t[2] = "n" THEN "\n" ELSE t[2])>> \o Unwrap(Unescape(SubSeq(t, 3, Len(t)))))
         ELSE IF Unescape(Tail(t)) = None THEN None
              ELSE Some(<<t[1]>> \o Unwrap(Unescape(Tail(t))))

\* A string that goes into the document with its characters as they are.
JsonStringRaw(s) == <<"\"">> \o s \o <<"\"">>

JsonString(s) == <<"\"">> \o Escape(s) \o <<"\"">>

ParseJsonString(t) ==
    IF Len(t) >= 2 /\ t[1] = "\"" /\ t[Len(t)] = "\"" THEN Unescape(SubSeq(t, 2, Len(t) - 1)) ELSE None

\* DateTime<Utc> as serde writes it: the instant in full, in a string.
JsonTime(t) == JsonString(FormatU32(t) \o <<"Z">>)

ParseJsonTime(t) ==
    LET u == ParseJsonString(t)
    IN IF IsSome(u) /\ Unwrap(u) # <<>> /\ Unwrap(u)[Len(Unwrap(u))] = "Z"
       THEN ParseJsonU32(SubSeq(Unwrap(u), 1, Len(Unwrap(u)) - 1))
       ELSE None

JsonNull == <<"n", "u", "l", "l">>

JsonOptionTime(o) == IF IsSome(o) THEN JsonTime(Unwrap(o)) ELSE JsonNull

\* Some(option), or None for a parse error.
ParseJsonOptionTime(t) == IF t = JsonNull THEN Some(None) ELSE IF IsSome(ParseJsonTime(t)) THEN Some(ParseJsonTime(t)) ELSE None

VariantText(status) ==
    CASE status = Success -> <<"S", "u", "c", "c", "e", "s", "s">>
      [] status = Pending -> <<"P", "e", "n", "d", "i", "n", "g">>
      [] OTHER -> <<"F", "a", "i", "l", "e", "d">>

ParseVariant(t) ==
    IF t = JsonString(VariantText(Success)) THEN Some(Success)
    ELSE IF t = JsonString(VariantText(Pending)) THEN Some(Pending)
         ELSE IF t = JsonString(VariantText(Failed)) THEN Some(Failed)
              ELSE None

StepToJson(step) ==
    [number |-> FormatU32(step.number), name |-> JsonString(step.name), status |-> JsonString(VariantText(step.status)),
     additional_info |-> [i \in 1..Len(step.additional_info) |-> <<JsonString(step.additional_info[i][1]), JsonString(step.additional_info[i][2])>>],
     started_at |-> JsonTime(step.started_at), completed_at |-> JsonOptionTime(step.completed_at)]

StepParses(j) ==
    /\ IsSome(ParseJsonU32(j.number))
    /\ IsSome(ParseJsonString(j.name))
    /\ IsSome(ParseVariant(j.status))
    /\ \A i \in 1..Len(j.additional_info) : IsSome(ParseJsonString(j.additional_info[i][1])) /\ IsSome(ParseJsonString(j.additional_info[i][2]))
    /\ IsSome(ParseJsonTime(j.started_at))
    /\ IsSome(ParseJsonOptionTime(j.completed_at))

StepFromJson(j) ==
    [number |-> Unwrap(ParseJsonU32(j.number)), name |-> Unwrap(ParseJsonString(j.name)), status |-> Unwrap(ParseVariant(j.status)),
     additional_info |-> [i \in 1..Len(j.additional_info) |-> <<Unwrap(ParseJsonString(j.additional_info[i][1])), Unwrap(ParseJsonString(j.additional_info[i][2]))>>],
     started_at |-> Unwrap(ParseJsonTime(j.started_at)), completed_at |-> Unwrap(ParseJsonOptionTime(j.completed_at))]

\* serde_json::to_string_pretty(state): the content written to the file.
to_string_pretty(state) ==
    << [c |-> "{", json |->
       [message_id |-> JsonString(state.message_id), pr_number |-> FormatU32(state.pr_number), pr_title |-> JsonString(state.pr_title),
        author |-> JsonString(state.author), repository |-> JsonString(state.repository), branch |-> JsonString(state.branch),
        steps |-> [i \in 1..Len(state.steps) |-> StepToJson(state.steps[i])],
        pipeline_started_at |-> JsonTime(state.pipeline_started_at)]] >>

Whitespace == {" ", "\n", "\t", "\r"}

\* str::trim: the content without the whitespace at its two ends.
RECURSIVE Trim(_)
Trim(c) ==
    IF c = <<>> THEN c
    ELSE IF c[1].c \in Whitespace THEN Trim(Tail(c))
         ELSE IF c[Len(c)].c \in Whitespace THEN Trim(SubSeq(c, 1, Len(c) - 1))
              ELSE c

\* serde_json::from_str::<PipelineState>: Some(state), or None for an error.
\* The whitespace around the one document is skipped.
from_str(content) ==
    LET c == Trim(content)
        j == c[1].json
    IN IF /\ Len(c) = 1
          /\ DOMAIN c[1] = {"c", "json"}
          /\ IsSome(ParseJsonString(j.message_id))
          /\ IsSome(ParseJsonU32(j.pr_number))
          /\ IsSome(ParseJsonString(j.pr_title))
          /\ IsSome(ParseJsonString(j.author))
          /\ IsSome(ParseJsonString(j.repository))
          /\ IsSome(ParseJsonString(j.branch))
          /\ \A i \in 1..Len(j.steps) : StepParses(j.steps[i])
          /\ IsSome(ParseJsonTime(j.pipeline_started_at))
       THEN Some([message_id |-> Unwrap(ParseJsonString(j.message_id)), pr_number |-> Unwrap(ParseJsonU32(j.pr_number)),
                  pr_title |-> Unwrap(ParseJsonString(j.pr_title)), author |-> Unwrap(ParseJsonString(j.author)),
                  repository |-> Unwrap(ParseJsonString(j.repository)), branch |-> Unwrap(ParseJsonString(j.branch)),
                  steps |-> [i \in 1..Len(j.steps) |-> StepFromJson(j.steps[i])],
                  pipeline_started_at |-> Unwrap(ParseJsonTime(j.pipeline_started_at))])
       ELSE None

\* The content of the file that holds the state f: none when there is no file.
FileContent(f) == IF IsSome(f) THEN Some(to_string_pretty(Unwrap(f))) ELSE None

\* MessageStorage::load_pipeline_state on a file of this content: none for a
\* missing file and for a content that is empty once trimmed.
load_pipeline_state(content) ==
    IF content = None THEN [result |-> "Ok", state |-> None]
    ELSE IF Trim(Unwrap(content)) = <<>> THEN [result |-> "Ok", state |-> None]
         ELSE IF from_str(Unwrap(content)) = None THEN [result |-> "JsonError", state |-> None]
              ELSE [result |-> "Ok", state |-> from_str(Unwrap(content))]

\* ------------------------------------------------------------- durations
\* StepInfo::duration, in milliseconds: None for a step that is not completed.
duration(step) == IF IsSome(step.completed_at) THEN Some(Unwrap(step.completed_at) - step.started_at) ELSE None

\* StepInfo::format_duration: "{}" writes a number in decimal digits with no
\* padding.
format_duration(step) ==
    IF IsSome(duration(step))
    THEN LET millis == Unwrap(duration(step))
             seconds == millis \div 1000
             remaining_millis == millis % 1000
         IN IF millis < 1000 THEN <<"(", "+">> \o FormatU32(millis) \o <<"m", "s", ")">>
            ELSE IF remaining_millis = 0 THEN <<"(", "+">> \o FormatU32(seconds) \o <<"s", ")">>
                 ELSE <<"(", "+">> \o FormatU32(seconds) \o <<".">> \o FormatU32(remaining_millis) \o <<"s", ")">>
    ELSE <<>>

\* ------------------------------------------------------------- tracker
Constructed ==
    /\ live = TRUE
    /\ message_id = None
    /\ steps = <<>>
    /\ pr_info = None
    /\ pipeline_started_at = None
    /\ file = None
    /\ now = 0
    /\ next_id = 1
    /\ reqs = <<>>
    /\ last = Call("new", "Ok", NoArgs)
    /\ ops = 0
    /\ created = None
    /\ stamped = {}
    /\ completed = FALSE
    /\ embed = None

Init == Constructed /\ inp = NoInput /\ out = None

\* PipelineTracker::new in a new process of the same working directory: the
\* fields start empty and the snapshot file is not read.
New(bot_token, channel_id) ==
    /\ ops < MaxOps
    /\ ops' = ops + 1
    /\ now' = now + 1
    /\ live' = (DiscordApiNew(bot_token, channel_id) = "Ok")
    /\ message_id' = None
    /\ steps' = <<>>
    /\ pr_info' = None
    /\ pipeline_started_at' = None
    /\ reqs' = <<>>
    /\ last' = Call("new", DiscordApiNew(bot_token, channel_id), NoArgs)
    /\ created' = None
    /\ stamped' = {}
    /\ completed' = FALSE
    /\ embed' = None
    /\ UNCHANGED <<file, next_id, inp, out>>

\* An init that saves an empty step list whatever the tracker holds.
InitStateEmptySteps(mid, pr, list, started) == PipelineState(mid, pr, <<>>, started)

\* init_pipeline, lines 73-82: the snapshot it saves.
InitState(mid, pr, list, started) == PipelineState(mid, pr, list, started)

init_pipeline(pr, remote, fsOk) ==
    /\ live
    /\ ops < MaxOps
    /\ ops' = ops + 1
    /\ now' = now + 1
    /\ ~fsOk => remote = "Ok"
    /\ pr_info' = Some(pr)
    /\ pipeline_started_at' = Some(now)
    /\ reqs' = <<Post>>
    /\ IF remote # "Ok"
       THEN /\ last' = Call("init", remote, NoArgs)
            /\ UNCHANGED <<message_id, file, next_id, created, completed>>
       ELSE /\ message_id' = Some(IdText(next_id))
            /\ created' = Some(IdText(next_id))
            /\ completed' = FALSE
            /\ next_id' = next_id + 1
            /\ file' = save_pipeline_state(file, InitState(IdText(next_id), pr, steps, now), fsOk)
            /\ last' = Call("init", IF fsOk THEN "Ok" ELSE "FileSystemError", NoArgs)
    /\ embed' = Some(build_init_embed(pr))
    /\ UNCHANGED <<live, steps, stamped, inp, out>>

\* A find-or-create that does not find: every call pushes a new step.
UpsertStepAppend(list, number, name, status, info, t) == Append(list, StepInfoNew(number, name, status, info, t))

\* update_step, lines 102-119: find or create the step.
UpsertStep(list, number, name, status, info, t) ==
    IF Position(list, number) # 0
    THEN [list EXCEPT ![Position(list, number)] = [@ EXCEPT !.name = name, !.status = status, !.additional_info = info]]
    ELSE Append(list, StepInfoNew(number, name, status, info, t))

\* A stamp that forgets the Failed status.
CompleteStepOnSuccess(list, number, status, t) ==
    IF status = Success /\ Position(list, number) # 0
    THEN [list EXCEPT ![Position(list, number)] = mark_completed(@, t)]
    ELSE list

\* update_step, lines 121-126: stamp the step when it is finished.
CompleteStep(list, number, status, t) ==
    IF status \in {Success, Failed} /\ Position(list, number) # 0
    THEN [list EXCEPT ![Position(list, number)] = mark_completed(@, t)]
    ELSE list

\* An update that patches whenever there is a context, with the default
\* (empty) id when the tracker has none.
StepRequestsDefaultId(pr, mid) == IF IsSome(pr) THEN <<Patch(unwrap_or(mid, <<>>))>> ELSE <<>>

\* update_step, lines 128-146: the requests it sends.
StepRequests(pr, mid) == IF IsSome(pr) /\ IsSome(mid) THEN <<Patch(Unwrap(mid))>> ELSE <<>>

\* update_step, lines 148-159: the snapshot it saves (there is a context).
StepState(pr, mid, list, started, t) == PipelineState(unwrap_or(mid, <<>>), Unwrap(pr), list, unwrap_or(started, t))

\* The environment answers only what it is asked: update_step reaches its
\* request when the arguments are valid and StepRequests is not empty, and
\* its save when the request (if any) succeeded and there is a context.
StepSends(step_number, total_steps, status) ==
    /\ validate_step_number(step_number, total_steps) = "Ok"
    /\ StatusFromStr(status) # None
    /\ StepRequests(pr_info, message_id) # <<>>

StepSaves(step_number, total_steps, status, remote) ==
    /\ validate_step_number(step_number, total_steps) = "Ok"
    /\ StatusFromStr(status) # None
    /\ remote = "Ok"
    /\ IsSome(pr_info)

update_step(step_number, total_steps, step_name, status, additional_info, remote, fsOk) ==
    /\ live
    /\ ops < MaxOps
    /\ ops' = ops + 1
    /\ now' = now + 1
    /\ remote # "Ok" => StepSends(step_number, total_steps, status)
    /\ ~fsOk => StepSaves(step_number, total_steps, status, remote)
    /\ IF validate_step_number(step_number, total_steps) # "Ok"
       THEN /\ last' = Call("step", validate_step_number(step_number, total_steps), StepArgs(step_number, total_steps, step_name, status, additional_info))
            /\ reqs' = <<>>
            /\ embed' = None
            /\ UNCHANGED <<steps, file, stamped>>
       ELSE IF StatusFromStr(status) = None
       THEN /\ last' = Call("step", "InvalidStatus", StepArgs(step_number, total_steps, step_name, status, additional_info))
            /\ reqs' = <<>>
            /\ embed' = None
            /\ UNCHANGED <<steps, file, stamped>>
       ELSE LET st == Unwrap(StatusFromStr(status))
                list == CompleteStep(UpsertStep(steps, step_number, step_name, st, additional_info, now), step_number, st, now)
                sent == StepRequests(pr_info, message_id)
            IN /\ steps' = list
               /\ stamped' = IF st \in {Success, Failed} THEN stamped \cup {step_number} ELSE stamped
               /\ reqs' = sent
               /\ embed' = IF IsSome(pr_info) THEN Some(build_step_update_embed(Unwrap(pr_info), list, step_number, total_steps)) ELSE None
               /\ IF sent # <<>> /\ remote # "Ok"
                  THEN /\ last' = Call("step", remote, StepArgs(step_number, total_steps, step_name, status, additional_info))
                       /\ file' = file
                  ELSE IF IsSome(pr_info)
                  THEN /\ file' = save_pipeline_state(file, StepState(pr_info, message_id, list, pipeline_started_at, now), fsOk)
                       /\ last' = Call("step", IF fsOk THEN "Ok" ELSE "FileSystemError", StepArgs(step_number, total_steps, step_name, status, additional_info))
                  ELSE /\ file' = file
                       /\ last' = Call("step", "Ok", StepArgs(step_number, total_steps, step_name, status, additional_info))
    /\ UNCHANGED <<live, message_id, pr_info, pipeline_started_at, next_id, created, completed, inp, out>>

\* complete_pipeline, lines 168-186: the requests it sends.
CompleteRequests(pr, started, mid) == IF IsSome(pr) /\ IsSome(started) /\ IsSome(mid) THEN <<Patch(Unwrap(mid))>> ELSE <<>>

\* A completion that clears the snapshot before it knows that the request
\* has succeeded.
CompletePipelineClearsFirst(remote, fsOk) ==
    /\ live
    /\ ops < MaxOps
    /\ ops' = ops + 1
    /\ now' = now + 1
    /\ remote # "Ok" => CompleteRequests(pr_info, pipeline_started_at, message_id) # <<>>
    /\ ~fsOk => remote = "Ok" /\ IsSome(file)
    /\ reqs' = CompleteRequests(pr_info, pipeline_started_at, message_id)
    /\ embed' = IF IsSome(pr_info) /\ IsSome(pipeline_started_at)
                THEN Some(build_completion_embed(Unwrap(pr_info), steps, Len(steps), Unwrap(pipeline_started_at), now))
                ELSE None
    /\ IF CompleteRequests(pr_info, pipeline_started_at, message_id) # <<>> /\ remote # "Ok"
       THEN /\ last' = Call("complete", remote, NoArgs)
            /\ completed' = completed
            /\ file' = clear_pipeline_state(file, fsOk)
       ELSE /\ file' = clear_pipeline_state(file, fsOk)
            /\ last' = Call("complete", ClearResult(file, fsOk), NoArgs)
            /\ completed' = (completed \/ (ClearResult(file, fsOk) = "Ok" /\ IsSome(created)))
    /\ UNCHANGED <<live, message_id, steps, pr_info, pipeline_started_at, next_id, created, stamped, inp, out>>

complete_pipeline(remote, fsOk) ==
    /\ live
    /\ ops < MaxOps
    /\ ops' = ops + 1
    /\ now' = now + 1
    /\ remote # "Ok" => CompleteRequests(pr_info, pipeline_started_at, message_id) # <<>>
    /\ ~fsOk => remote = "Ok" /\ IsSome(file)
    /\ reqs' = CompleteRequests(pr_info, pipeline_started_at, message_id)
    /\ embed' = IF IsSome(pr_info) /\ IsSome(pipeline_started_at)
                THEN Some(build_completion_embed(Unwrap(pr_info), steps, Len(steps), Unwrap(pipeline_started_at), now))
                ELSE None
    /\ IF CompleteRequests(pr_info, pipeline_started_at, message_id) # <<>> /\ remote # "Ok"
       THEN /\ last' = Call("complete", remote, NoArgs)
            /\ completed' = completed
            /\ file' = file
       ELSE /\ file' = clear_pipeline_state(file, fsOk)
            /\ last' = Call("complete", ClearResult(file, fsOk), NoArgs)
            /\ completed' = (completed \/ (ClearResult(file, fsOk) = "Ok" /\ IsSome(created)))
    /\ UNCHANGED <<live, message_id, steps, pr_info, pipeline_started_at, next_id, created, stamped, inp, out>>

\* The calls of update_step the model makes: every valid step number and
\* total with every label and status text, and, with one label, the calls
\* that fail validation: an invalid status text, and the invalid pairs of
\* step number and total at the ends of the range, with a valid and with an
\* invalid status text.
StepCalls ==
    { c \in [step_number : 0..MaxStep, total_steps : 0..MaxStep, label : StepLabels, status : StatusTexts] :
        \/ validate_step_number(c.step_number, c.total_steps) = "Ok" /\ StatusFromStr(c.status) # None
        \/ /\ c.label.name = "Build"
           /\ c.status \in { <<"s", "u", "c", "c", "e", "s", "s">>, <<"d", "o", "n", "e">> }
           /\ <<c.step_number, c.total_steps>> \in { <<0, 0>>, <<0, MaxStep>>, <<MaxStep, 0>>, <<MaxStep, MaxStep - 1>> }
        \/ /\ c.label.name = "Build"
           /\ c.status = <<"d", "o", "n", "e">>
           /\ <<c.step_number, c.total_steps>> = <<1, 1>> }

Next ==
    \/ \E t \in Tokens, c \in ChannelIds : New(t, c)
    \/ \E pr \in PrInputs, r \in RemoteOutcomes, f \in FsOutcomes : init_pipeline(pr, r, f)
    \/ \E c \in StepCalls, r \in RemoteOutcomes, f \in FsOutcomes : update_step(c.step_number, c.total_steps, c.label.name, c.status, c.label.info, r, f)
    \/ \E r \in RemoteOutcomes, f \in FsOutcomes : complete_pipeline(r, f)

Spec == Init /\ [][Next]_vars

\* ------------------------------------------------------------- functions
\* The functions of the program applied on their own: the input is drawn
\* when the run starts, the one step of the run applies the function to it.
trackerVars == <<live, message_id, steps, pr_info, pipeline_started_at, file, now, next_id, reqs, last, ops, created, stamped, completed, embed>>

StatusLists == UNION { [1..n -> {Success, Pending, Failed}] : n \in 0..MaxLen }

\* The step list whose i-th step has number i and the i-th status.
StepsOf(statuses) == [i \in 1..Len(statuses) |-> StepInfoNew(i, "Build", statuses[i], <<>>, 0)]

EmbedInputs ==
    { [fn |-> "build_step_update_embed", steps |-> StepsOf(st), total_steps |-> t] : st \in StatusLists, t \in 0..MaxLen }

ValidateInputs == { [fn |-> "validate_step_number", step |-> a, total_steps |-> b] : a \in 0..MaxArg, b \in 0..MaxArg }

NewInputs == { [fn |-> "new", bot_token |-> t, channel_id |-> c] : t \in Tokens, c \in ChannelIds }

\* Snapshots with the characters that JSON escapes, with and without steps,
\* with a finished and an unfinished step.
SnapshotSteps ==
    { <<>>,
      << [number |-> 1, name |-> <<"B">>, status |-> Success, additional_info |-> <<>>, started_at |-> 3, completed_at |-> Some(12)] >>,
      << [number |-> 2, name |-> <<"a", "\"">>, status |-> Failed, additional_info |-> << << <<"k">>, <<"\\", "n">> >> >>, started_at |-> 0, completed_at |-> Some(0)],
         [number |-> 10, name |-> <<>>, status |-> Pending, additional_info |-> <<>>, started_at |-> 105, completed_at |-> None] >> }

Snapshots ==
    { [message_id |-> m, pr_number |-> n, pr_title |-> t, author |-> <<"a">>, repository |-> <<"o", "/", "r">>, branch |-> <<"m">>,
       steps |-> l, pipeline_started_at |-> d] :
        m \in {<<>>, <<"1", "2">>}, n \in {0, 42}, t \in {<<"F", "i", "x">>, <<"\"", "\\", "\n">>}, l \in SnapshotSteps, d \in {0, 100} }

\* A save over a file that is missing or holds an earlier snapshot, and then
\* a load; and a load of a file that is missing, empty or blank.
StorageInputs ==
    { [fn |-> "save_load", before |-> b, state |-> x] : b \in {None} \cup {Some(y) : y \in {z \in Snapshots : z.pr_number = 42 /\ z.pipeline_started_at = 100}}, x \in Snapshots }
    \cup { [fn |-> "load", content |-> c] : c \in {None, Some(<<>>), Some(<<[c |-> " "]>>), Some(<<[c |-> "\n"], [c |-> " "]>>)} }

\* An invocation of the hosted entry point with GITHUB_OUTPUT set: the
\* length of args, the action, the credentials, whether the parameters the
\* action requires are empty, and the result of the tracker operation that
\* the action dispatches to (if it gets there).
MainInputs ==
    { [fn |-> "main", argc |-> n, action |-> a, bot_token |-> t, channel_id |-> c, params_empty |-> e, result |-> r] :
        n \in 0..MaxArgc, a \in {"init", "step", "complete", "fail", "deploy"}, t \in Tokens,
        c \in {<<"1", "2", "3">>, <<"1", "2", "a">>}, e \in BOOLEAN, r \in RemoteOutcomes }

\* A step that is not completed, and the steps completed d milliseconds
\* after they started.
DurationInputs ==
    { [fn |-> "format_duration", step |-> [StepInfoNew(1, "Build", IF c = None THEN Pending ELSE Success, <<>>, 7) EXCEPT !.completed_at = c]] :
        c \in {None} \cup {Some(7 + d) : d \in 0..MaxMillis} }

FnInputs == EmbedInputs \cup ValidateInputs \cup NewInputs \cup StorageInputs \cup MainInputs \cup DurationInputs

FnInit == Constructed /\ inp \in FnInputs /\ out = None

ApplyBuildStepUpdateEmbed ==
    /\ inp.fn = "build_step_update_embed"
    /\ out = None
    /\ out' = Some(build_step_update_embed([number |-> <<"4", "2">>, title |-> "Add feature"], inp.steps, 1, inp.total_steps))
    /\ UNCHANGED <<trackerVars, inp>>

ApplyValidateStepNumber ==
    /\ inp.fn = "validate_step_number"
    /\ out = None
    /\ out' = Some([result |-> validate_step_number(inp.step, inp.total_steps), carried |-> StepNumberErrorArgs(inp.step, inp.total_steps)])
    /\ UNCHANGED <<trackerVars, inp>>

\* PipelineTracker::new, which is DiscordApi::new: the result, and the
\* channel id that InvalidChannelId carries.
ApplyNew ==
    /\ inp.fn = "new"
    /\ out = None
    /\ out' = Some([result |-> DiscordApiNew(inp.bot_token, inp.channel_id),
                    carried |-> IF DiscordApiNew(inp.bot_token, inp.channel_id) = "InvalidChannelId" THEN <<inp.channel_id>> ELSE <<>>])
    /\ UNCHANGED <<trackerVars, inp>>

\* save_pipeline_state(state) on the file, then load_pipeline_state().
ApplySaveLoad ==
    /\ inp.fn = "save_load"
    /\ out = None
    /\ out' = Some(load_pipeline_state(FileContent(save_pipeline_state(inp.before, inp.state, TRUE))))
    /\ UNCHANGED <<trackerVars, inp>>

ApplyLoad ==
    /\ inp.fn = "load"
    /\ out = None
    /\ out' = Some(load_pipeline_state(inp.content))
    /\ UNCHANGED <<trackerVars, inp>>

\* main, lines 29-32 and its like: the failure record and exit(1).
MainFails(msg) == [record |-> Some([success |-> FALSE, error |-> msg]), exit |-> 1]

\* main, lines 119-131: the record of the result of the action.
MainResult(result) ==
    IF result = "Ok" THEN [record |-> Some([success |-> TRUE, error |-> ""]), exit |-> 0]
    ELSE MainFails("Action failed")

\* main: what is written to the output path and the exit status.  args[14]
\* is read after the test args.len() < 14, and an index past the end panics:
\* the process ends with status 101 and nothing written.
Main(i) ==
    IF i.argc < 14 THEN MainFails("Insufficient arguments provided")
    ELSE IF i.argc <= 14 THEN [record |-> None, exit |-> 101]
    ELSE IF DiscordApiNew(i.bot_token, i.channel_id) # "Ok" THEN MainFails("Failed to create pipeline tracker")
    ELSE IF i.action \in {"init", "step", "fail"}
         THEN (IF i.params_empty THEN MainFails("Missing required parameters") ELSE MainResult(i.result))
         ELSE IF i.action = "complete" THEN MainResult(i.result)
              ELSE MainFails("Invalid action")

ApplyMain ==
    /\ inp.fn = "main"
    /\ out = None
    /\ out' = Some(Main(inp))
    /\ UNCHANGED <<trackerVars, inp>>

ApplyFormatDuration ==
    /\ inp.fn = "format_duration"
    /\ out = None
    /\ out' = Some(format_duration(inp.step))
    /\ UNCHANGED <<trackerVars, inp>>

FnNext ==
    \/ ApplyBuildStepUpdateEmbed
    \/ ApplyFormatDuration
    \/ ApplyMain
    \/ ApplySaveLoad
    \/ ApplyLoad
    \/ ApplyNew
    \/ ApplyValidateStepNumber

FnSpec == FnInit /\ [][FnNext]_vars

\* ------------------------------------------------------------- properties
\* A step of the run in which update_step, complete_pipeline or init_pipeline
\* was called on the tracker.
StepCalled == ops' = ops + 1 /\ last'.op = "step"

CompleteCalled == ops' = ops + 1 /\ last'.op = "complete"

InitCalled == ops' = ops + 1 /\ last'.op = "init"

\* The arguments of a call are valid, as the specification words it: the step
\* number and the total are at least 1, the step number is at most the total,
\* and the status text is success, pending or failed in any case of letters.
ValidArgs(a) ==
    /\ a.step_number >= 1
    /\ a.total_steps >= 1
    /\ a.step_number <= a.total_steps
    /\ to_lowercase(a.status) \in { <<"s", "u", "c", "c", "e", "s", "s">>, <<"p", "e", "n", "d", "i", "n", "g">>, <<"f", "a", "i", "l", "e", "d">> }

\* The status a valid status text names.
StatusNamed(text) ==
    CASE to_lowercase(text) = <<"s", "u", "c", "c", "e", "s", "s">> -> Success
      [] to_lowercase(text) = <<"p", "e", "n", "d", "i", "n", "g">> -> Pending
      [] OTHER -> Failed

\* The tracker is as PipelineTracker::new made it and nothing was called on it.
FreshTracker == live /\ last.op = "new" /\ message_id = None /\ steps = <<>> /\ pr_info = None /\ pipeline_started_at = None

\* C1: when an earlier process's init succeeded and its snapshot is on disk,
\* a valid update_step of a freshly constructed tracker issues one PATCH to
\* the message id that the snapshot records.
C1_ResumePatchesRecordedMessage ==
    [][(FreshTracker /\ IsSome(file) /\ Unwrap(file).message_id # <<>> /\ StepCalled /\ ValidArgs(last'.args))
          => reqs' = <<Patch(Unwrap(file).message_id)>>]_vars

\* C2: the step list holds at most one step per step number, and a valid
\* update_step with a number already in the list overwrites that step's name,
\* status and additional_info in place: the list keeps its length, its order
\* and its other steps.
C2_OneStepPerNumber ==
    /\ [](\A i, j \in 1..Len(steps) : steps[i].number = steps[j].number => i = j)
    /\ [][(StepCalled /\ ValidArgs(last'.args) /\ \E i \in 1..Len(steps) : steps[i].number = last'.args.step_number)
            => /\ Len(steps') = Len(steps)
               /\ \A i \in 1..Len(steps) :
                    IF steps[i].number = last'.args.step_number
                    THEN /\ steps'[i].number = steps[i].number
                         /\ steps'[i].started_at = steps[i].started_at
                         /\ steps'[i].name = last'.args.step_name
                         /\ steps'[i].status = StatusNamed(last'.args.status)
                         /\ steps'[i].additional_info = last'.args.additional_info
                    ELSE steps'[i] = steps[i]]_vars

\* C2 witness: the last call was a valid update_step of a step that an
\* earlier call had created, in a list of two steps.
C2_Witness ==
    /\ last.op = "step"
    /\ ValidArgs(last.args)
    /\ Len(steps) = 2
    /\ \E i \in 1..Len(steps) : steps[i].number = last.args.step_number /\ steps[i].started_at < now - 1

\* C3 as claimed: every step of the list has completed_at set if and only if
\* its status is Success or Failed.
C3_CompletedIffFinished ==
    \A i \in 1..Len(steps) : IsSome(steps[i].completed_at) <=> steps[i].status \in {Success, Failed}

\* C3 as amended: every step whose status is Success or Failed has
\* completed_at set, and a step has completed_at set if and only if a valid
\* update_step of this tracker has given it the status Success or Failed.
C3_CompletedIffEverFinished ==
    \A i \in 1..Len(steps) :
        /\ steps[i].status \in {Success, Failed} => IsSome(steps[i].completed_at)
        /\ IsSome(steps[i].completed_at) <=> steps[i].number \in stamped

\* C3 witness: a step that was finished and is Pending again.
C3_Witness ==
    \E i \in 1..Len(steps) : steps[i].status = Pending /\ IsSome(steps[i].completed_at) /\ last.op = "step"

\* C4: once a step's completed_at is set, no later update_step clears it or
\* replaces it with another timestamp.
C4_CompletedAtNeverChanges ==
    [][StepCalled
          => \A i \in 1..Len(steps) :
                IsSome(steps[i].completed_at)
                    => \E j \in 1..Len(steps') : steps'[j].number = steps[i].number /\ steps'[j].completed_at = steps[i].completed_at]_vars

\* C5: an update_step whose step number or total is invalid, or whose status
\* text names no status, returns the error of the first failing check and
\* changes nothing: not the step list, not the snapshot file, not the other
\* fields, and it sends no request.
C5_ValidateBeforeMutate ==
    [][(StepCalled /\ ~ValidArgs(last'.args))
          => /\ last'.result = (IF last'.args.step_number = 0 THEN "InvalidStepNumber"
                                ELSE IF last'.args.total_steps = 0 THEN "InvalidTotalSteps"
                                ELSE IF last'.args.step_number > last'.args.total_steps THEN "StepNumberExceedsTotal"
                                ELSE "InvalidStatus")
             /\ reqs' = <<>>
             /\ UNCHANGED <<steps, file, message_id, pr_info, pipeline_started_at, next_id>>]_vars

\* C5 witness: an invalid update_step was called on an initialized tracker
\* that holds steps and a snapshot.
C5_Witness ==
    /\ last.op = "step"
    /\ ~ValidArgs(last.args)
    /\ last.result # "Ok"
    /\ steps # <<>>
    /\ IsSome(message_id)
    /\ IsSome(file)

\* C6: a valid update_step called while the context or the message id is
\* absent sends no request, writes no snapshot and returns success.
C6_NoContextNoEffect ==
    [][(StepCalled /\ ValidArgs(last'.args) /\ (pr_info = None \/ message_id = None))
          => reqs' = <<>> /\ file' = file /\ last'.result = "Ok"]_vars

\* C7: complete_pipeline called while the context or the start time is
\* absent sends no request and leaves the snapshot file as it is.
C7_CompleteNoOpWithoutContext ==
    [][(CompleteCalled /\ (pr_info = None \/ pipeline_started_at = None))
          => reqs' = <<>> /\ file' = file]_vars

\* What C8 says of the snapshot apart from its step list: after a successful
\* init_pipeline the file holds the id the create returned, the context of the
\* call (the PR number as the u32 it parses to, 0 when it does not parse) and
\* the start time, and the call issued exactly one create.
InitSnapshotHeld ==
    /\ IsSome(file)
    /\ reqs = <<Post>>
    /\ Unwrap(file).message_id = IdText(next_id - 1)
    /\ Some(Unwrap(file).message_id) = message_id
    /\ Unwrap(file).pr_number = unwrap_or(ParseU32(Unwrap(pr_info).number), 0)
    /\ Unwrap(file).pr_title = Unwrap(pr_info).title
    /\ Unwrap(file).author = Unwrap(pr_info).author
    /\ Unwrap(file).repository = Unwrap(pr_info).repository
    /\ Unwrap(file).branch = Unwrap(pr_info).branch
    /\ Some(Unwrap(file).pipeline_started_at) = pipeline_started_at

\* C8 as claimed: after every successful init_pipeline the snapshot holds the
\* created message id, the context and an empty step list.
C8_InitSnapshotEmptySteps ==
    (last.op = "init" /\ last.result = "Ok") => InitSnapshotHeld /\ Unwrap(file).steps = <<>>

\* C8 as amended: after every successful init_pipeline the snapshot holds the
\* created message id, the context and the tracker's step list as it is at
\* that call, with the steps that update_step calls before the init put there.
C8_InitSnapshotCurrentSteps ==
    (last.op = "init" /\ last.result = "Ok")
        => InitSnapshotHeld /\ Unwrap(file).steps = steps

\* C8 witness: a successful init_pipeline on a tracker that holds a step.
C8_Witness == last.op = "init" /\ last.result = "Ok" /\ steps # <<>> /\ IsSome(file)

\* C9: the context is absent until an init_pipeline of this tracker has
\* succeeded, and once it is set no later operation on the tracker changes it.
C9_ContextSetOnceBySuccess ==
    [][last'.op # "new"
          => /\ IsSome(pr_info') => IsSome(created')
             /\ IsSome(pipeline_started_at') => IsSome(created')
             /\ IsSome(pr_info) => pr_info' = pr_info /\ pipeline_started_at' = pipeline_started_at]_vars

\* C10: every PATCH goes to the message id that the last successful create of
\* this tracker returned, none is sent before such a create, and an operation
\* issues at most one request, so no two of its requests overlap.
C10_PatchTargetsLastCreate ==
    /\ Len(reqs) <= 1
    /\ \A i \in 1..Len(reqs) :
         reqs[i].method = "PATCH" => last.op \in {"step", "complete"} /\ IsSome(created) /\ reqs[i].message_id = Unwrap(created)

\* C10 witness: a PATCH sent by update_step after the tracker's second create.
C10_Witness == last.op = "step" /\ reqs = <<Patch(IdText(2))>> /\ created = Some(IdText(2))

\* The three states an embed can show: emoji, status text and colour.
FailureState == <<Cross, "Failed", Red>>

SuccessState == <<Check, "Completed", Green>>

InProgressState == <<Arrows, "In Progress", Yellow>>

Shown(e) == <<e.emoji, e.status_text, e.color>>

\* C11: the step-update embed of any step list and total shows the failure
\* state when a step is Failed, else the success state when the number of
\* Success steps equals the total, else the in-progress state; emoji, status
\* text and colour are those of one and the same state.
C11_StepEmbedStatePrecedence ==
    (inp.fn = "build_step_update_embed" /\ IsSome(out))
        => Shown(Unwrap(out)) =
              IF \E i \in 1..Len(inp.steps) : inp.steps[i].status = Failed THEN FailureState
              ELSE IF Cardinality({i \in 1..Len(inp.steps) : inp.steps[i].status = Success}) = inp.total_steps THEN SuccessState
                   ELSE InProgressState

\* C11 witness: the embed of a list that holds a Failed step and as many
\* Success steps as the total, so that the precedence decides.
C11_Witness ==
    /\ inp.fn = "build_step_update_embed"
    /\ IsSome(out)
    /\ \E i \in 1..Len(inp.steps) : inp.steps[i].status = Failed
    /\ Cardinality({i \in 1..Len(inp.steps) : inp.steps[i].status = Success}) = inp.total_steps
    /\ inp.total_steps > 0
    /\ Shown(Unwrap(out)) = FailureState

\* C12: the completion embed that complete_pipeline builds shows the failure
\* state when a step of the list is Failed and the success state otherwise,
\* whatever the list holds; its colour is never yellow.
C12_CompletionNeverInProgress ==
    (last.op = "complete" /\ IsSome(embed))
        => /\ Shown(Unwrap(embed)) = IF \E i \in 1..Len(steps) : steps[i].status = Failed THEN FailureState ELSE SuccessState
           /\ Unwrap(embed).color # Yellow

\* C13: an operation issues at most one remote request, and when that
\* request fails the operation returns the error with the snapshot file as it
\* was: nothing written, overwritten or deleted, and a failed init_pipeline
\* sets no message id.
C13_NoRetryNoPartialRecovery ==
    [][(ops' = ops + 1)
          => /\ Len(reqs') <= 1
             /\ (last'.op \in {"init", "step", "complete"} /\ last'.result = "DiscordApiError")
                   => /\ Len(reqs') = 1
                      /\ file' = file
                      /\ last'.op = "init" => message_id' = message_id]_vars

\* C13 witness: a complete_pipeline whose request failed, with the snapshot
\* of the init still in the file.
C13_Witness ==
    /\ last.op = "complete"
    /\ last.result = "DiscordApiError"
    /\ Len(reqs) = 1
    /\ IsSome(file)
    /\ IsSome(message_id)

\* C14: validate_step_number(step, total) succeeds exactly when
\* 1 <= step <= total, and otherwise returns one error in this precedence:
\* InvalidStepNumber(step) when step = 0, else InvalidTotalSteps(total) when
\* total = 0, else StepNumberExceedsTotal(step, total).
C14_StepNumberPrecedence ==
    (inp.fn = "validate_step_number" /\ IsSome(out))
        => /\ Unwrap(out).result = "Ok" <=> (1 <= inp.step /\ inp.step <= inp.total_steps)
           /\ inp.step = 0 => Unwrap(out) = [result |-> "InvalidStepNumber", carried |-> <<inp.step>>]
           /\ (inp.step # 0 /\ inp.total_steps = 0) => Unwrap(out) = [result |-> "InvalidTotalSteps", carried |-> <<inp.total_steps>>]
           /\ (inp.step # 0 /\ inp.total_steps # 0 /\ inp.step > inp.total_steps)
                 => Unwrap(out) = [result |-> "StepNumberExceedsTotal", carried |-> <<inp.step, inp.total_steps>>]

\* C14 witness: the validation of step 0 with total 0, where two checks fail
\* and the first one answers.
C14_Witness ==
    /\ inp.fn = "validate_step_number"
    /\ inp.step = 0
    /\ inp.total_steps = 0
    /\ out = Some([result |-> "InvalidStepNumber", carried |-> <<0>>])

\* C15: constructing a tracker succeeds exactly when the token is not empty
\* and the channel id is valid, that is, not empty and either holding an E or
\* e and parsing as a floating-point number, or consisting of decimal digits
\* only; an empty token gives InvalidBotToken whatever the channel id, and
\* otherwise an invalid channel id gives InvalidChannelId carrying that id.
C15_ConstructionValidity ==
    (inp.fn = "new" /\ IsSome(out))
        => LET id == inp.channel_id
               valid == /\ id # <<>>
                        /\ \/ HasExponentLetter(id) /\ ParsesAsF64(id)
                           \/ \A i \in 1..Len(id) : id[i] \in Digits
           IN Unwrap(out) =
                 IF inp.bot_token = <<>> THEN [result |-> "InvalidBotToken", carried |-> <<>>]
                 ELSE IF valid THEN [result |-> "Ok", carried |-> <<>>]
                      ELSE [result |-> "InvalidChannelId", carried |-> <<id>>]

\* C16: save_pipeline_state(s) followed by load_pipeline_state() returns a
\* snapshot equal to s field for field, whatever an earlier save left in the
\* file; and load returns none when the file is missing or empty.
C16_SnapshotRoundTrip ==
    /\ (inp.fn = "save_load" /\ IsSome(out))
          => /\ Unwrap(out).result = "Ok"
             /\ IsSome(Unwrap(out).state)
             /\ \A k \in {"message_id", "pr_number", "pr_title", "author", "repository", "branch", "pipeline_started_at"} :
                   Unwrap(Unwrap(out).state)[k] = inp.state[k]
             /\ Len(Unwrap(Unwrap(out).state).steps) = Len(inp.state.steps)
             /\ \A i \in 1..Len(inp.state.steps) : Unwrap(Unwrap(out).state).steps[i] = inp.state.steps[i]
    /\ (inp.fn = "load" /\ IsSome(out)) => Unwrap(out) = [result |-> "Ok", state |-> None]

\* C16 witness: a snapshot with two steps and with characters that JSON
\* escapes was saved over an earlier, different snapshot and loaded.
C16_Witness ==
    /\ inp.fn = "save_load"
    /\ IsSome(out)
    /\ IsSome(inp.before)
    /\ Unwrap(inp.before) # inp.state
    /\ Len(inp.state.steps) = 2
    /\ inp.state.pr_title = <<"\"", "\\", "\n">>
    /\ Unwrap(out).state = Some(inp.state)

\* C17: with the output path set, every invocation of the hosted entry point
\* writes a result record; one that fails (too few arguments, invalid
\* credentials, missing parameters of the action, an unknown action, an error
\* of the operation) writes a failure record and exits with a non-zero
\* status; success is written only when the dispatched operation returned Ok.
C17_FailureAlwaysRecorded ==
    (inp.fn = "main" /\ IsSome(out))
        => LET fails == \/ inp.argc < 15
                        \/ inp.bot_token = <<>>
                        \/ ValidateChannelId(inp.channel_id) # "Ok"
                        \/ inp.action \notin {"init", "step", "complete", "fail"}
                        \/ inp.action # "complete" /\ inp.params_empty
                        \/ inp.result # "Ok"
           IN /\ IsSome(Unwrap(out).record)
              /\ fails => ~Unwrap(Unwrap(out).record).success /\ Unwrap(out).exit # 0
              /\ Unwrap(Unwrap(out).record).success => ~fails

\* C18: once complete_pipeline has succeeded on an initialized tracker the
\* snapshot file does not exist, and no later update_step on the tracker
\* patches the remote message or creates the file again.
C18_CompletedIsTerminal ==
    [][/\ (CompleteCalled /\ last'.result = "Ok" /\ IsSome(created)) => file' = None
       /\ (completed /\ StepCalled) => reqs' = <<>> /\ file' = None]_vars

\* C19: in every step-update embed that update_step builds, the number of
\* completed steps shown in the Progress field is at most the total shown,
\* and the percentage shown is between 0 and 100.
C19_ProgressWithinTotal ==
    (last.op = "step" /\ IsSome(embed))
        => /\ Unwrap(embed).completed <= Unwrap(embed).total
           /\ 0 <= Unwrap(embed).percentage
           /\ Unwrap(embed).percentage <= 100

\* C20: format_duration of a step completed d milliseconds after its start
\* renders d: "(+{d}ms)" when d < 1000, and otherwise "(+", seconds in
\* decimal notation whose value is d / 1000 (no point when d is a multiple of
\* 1000), "s)"; for a step with no completion time it renders nothing.
C20_DurationRendersItsValue ==
    (inp.fn = "format_duration" /\ IsSome(out))
        => IF inp.step.completed_at = None THEN Unwrap(out) = <<>>
           ELSE LET d == Unwrap(inp.step.completed_at) - inp.step.started_at
                    text == Unwrap(out)
                    number == SubSeq(text, 3, Len(text) - 2)
                    point == IF \E i \in 1..Len(number) : number[i] = "." THEN CHOOSE i \in 1..Len(number) : number[i] = "." ELSE Len(number) + 1
                    whole == SubSeq(number, 1, point - 1)
                    frac == SubSeq(number, point + 1, Len(number))
                    thousandths == DecimalValue(frac) * (CASE Len(frac) = 0 -> 0 [] Len(frac) = 1 -> 100 [] Len(frac) = 2 -> 10 [] OTHER -> 1)
                IN IF d < 1000 THEN text = <<"(", "+">> \o FormatU32(d) \o <<"m", "s", ")">>
                   ELSE /\ SubSeq(text, 1, 2) = <<"(", "+">>
                        /\ SubSeq(text, Len(text) - 1, Len(text)) = <<"s", ")">>
                        /\ whole # <<>> /\ \A i \in 1..Len(whole) : whole[i] \in Digits
                        /\ Len(frac) <= 3 /\ \A i \in 1..Len(frac) : frac[i] \in Digits
                        /\ (d % 1000 = 0) <=> (point = Len(number) + 1)
                        /\ DecimalValue(whole) * 1000 + thousandths = d

====
